---- MODULE Spec2Model ----
(***************************************************************************)
(* Smart Fitness desktop application: the four JSON record stores          *)
(* (users, workouts, meals, goals) and the handlers of the five screens    *)
(* that read and rewrite them.                                             *)
(*                                                                         *)
(* Texts that the code converts (entry texts parsed by int(), names        *)
(* compared through str.lower(), numbers formatted by str()) are sequences *)
(* of one-character strings; texts the code only stores and compares are   *)
(* plain strings.  A date string "YYYY-MM-DD" is the triple <<Y, M, D>>.   *)
(***************************************************************************)
EXTENDS Integers, Sequences, FiniteSets, TLC

VARIABLES
    users,            \* data/users.json     : sequence of user records
    workouts,         \* data/workouts.json  : sequence of workout records
    meals,            \* data/meals.json     : sequence of meal records
    goals,            \* data/goals.json     : one JSON object (a function on its keys)
    today,            \* the system clock's calendar day (ordinal)
    corrupt,          \* the data files open() or json.load() fails on
    opened,           \* screens that have been opened from the launcher
    userForm,         \* UserScreen entries
    profile_display,  \* UserScreen text box
    workoutForm,      \* WorkoutScreen entries
    tree,             \* WorkoutScreen table rows
    selection,        \* WorkoutScreen selected row (0: none)
    notes_shown,      \* bodies of the "Workout Notes" dialogs of the last double-click
    goalForm,         \* GoalScreen entry
    progress_var,     \* GoalScreen progress bar value, a fraction [num, den]
    progress_label,   \* GoalScreen label
    mealForm,         \* NutritionScreen entries
    meal_tree,        \* NutritionScreen table rows
    weekly_report,    \* body of the last "Weekly Report" dialog
    report_summary,   \* labels of the ReportScreen summaries
    chart,            \* series plotted by ReportScreen.show_fitness_chart
    tips,             \* body of the last "Tip" / "Nutrition Tip" dialog
    prompt,           \* update_progress is blocked in its "Goal Completed" askyesno
    op,               \* the handler that ran last
    dialogs           \* titles of the message boxes the last handler raised

files == <<users, workouts, meals, goals>>
userVars == <<userForm, profile_display>>
workoutVars == <<workoutForm, tree, selection, notes_shown>>
goalVars == <<goalForm, progress_var, progress_label, prompt>>
mealVars == <<mealForm, meal_tree>>
reportVars == <<weekly_report, report_summary, chart, tips>>
vars == <<users, workouts, meals, goals, today, corrupt, opened, userForm, profile_display,
          workoutForm, tree, selection, notes_shown, goalForm, progress_var, progress_label,
          mealForm, meal_tree, weekly_report, report_summary, chart, tips, prompt, op,
          dialogs>>

----------------------------------------------------------------------------
(* Bounds of the model *)

MaxWorkouts == 2
MaxMeals == 2

\* files that can be unreadable at the same time
MaxCorrupt == 1

----------------------------------------------------------------------------
(* Python built-ins the handlers rely on *)

DigitChars == {"0", "1", "2", "3", "4", "5", "6", "7", "8", "9"}

DigitVal(c) ==
    CASE c = "0" -> 0 [] c = "1" -> 1 [] c = "2" -> 2 [] c = "3" -> 3 [] c = "4" -> 4
      [] c = "5" -> 5 [] c = "6" -> 6 [] c = "7" -> 7 [] c = "8" -> 8 [] c = "9" -> 9

DigitChar(d) ==
    CASE d = 0 -> "0" [] d = 1 -> "1" [] d = 2 -> "2" [] d = 3 -> "3" [] d = 4 -> "4"
      [] d = 5 -> "5" [] d = 6 -> "6" [] d = 7 -> "7" [] d = 8 -> "8" [] d = 9 -> "9"

RECURSIVE LStrip(_)
LStrip(s) == IF s # <<>> /\ Head(s) = " " THEN LStrip(Tail(s)) ELSE s

RECURSIVE RStrip(_)
RStrip(s) == IF s # <<>> /\ s[Len(s)] = " " THEN RStrip(SubSeq(s, 1, Len(s) - 1)) ELSE s

Strip(s) == RStrip(LStrip(s))

\* the digits of an int() literal once blanks and sign are removed
Unsigned(s) ==
    LET t == Strip(s)
    IN  IF t # <<>> /\ Head(t) \in {"-", "+"} THEN Tail(t) ELSE t

\* int(s) does not raise ValueError
IsIntText(s) ==
    /\ Unsigned(s) # <<>>
    /\ \A i \in 1..Len(Unsigned(s)) : Unsigned(s)[i] \in DigitChars

RECURSIVE DigitsValue(_)
DigitsValue(ds) ==
    IF ds = <<>> THEN 0
    ELSE 10 * DigitsValue(SubSeq(ds, 1, Len(ds) - 1)) + DigitVal(ds[Len(ds)])

\* int(s)
IntValue(s) ==
    LET t == Strip(s)
    IN  IF Head(t) = "-" THEN 0 - DigitsValue(Unsigned(s)) ELSE DigitsValue(Unsigned(s))

RECURSIVE NatStr(_)
NatStr(n) ==
    IF n < 10 THEN <<DigitChar(n)>> ELSE Append(NatStr(n \div 10), DigitChar(n % 10))

\* str(n)
Str(n) == IF n < 0 THEN <<"-">> \o NatStr(0 - n) ELSE NatStr(n)

LowerChar(c) == CASE c = "A" -> "a" [] c = "B" -> "b" [] OTHER -> c

\* s.lower()
Lower(s) == [i \in 1..Len(s) |-> LowerChar(s[i])]

\* d.get(k, default)
Get(d, k, default) == IF k \in DOMAIN d THEN d[k] ELSE default

\* int(x) of a fraction: truncation toward zero
Trunc(num, den) == IF num >= 0 THEN num \div den ELSE 0 - ((0 - num) \div den)

RECURSIVE SumSeq(_)
SumSeq(s) == IF s = <<>> THEN 0 ELSE Head(s) + SumSeq(Tail(s))

----------------------------------------------------------------------------
(* Calendar: datetime - timedelta(days) and strftime("%Y-%m-%d") *)

EpochYear == 2024

IsLeap(y) == (y % 4 = 0 /\ y % 100 # 0) \/ y % 400 = 0

DaysInMonth(y, m) ==
    IF m = 2 THEN (IF IsLeap(y) THEN 29 ELSE 28)
    ELSE IF m \in {4, 6, 9, 11} THEN 30 ELSE 31

RECURSIVE FromOrdinal(_, _, _)
FromOrdinal(y, m, n) ==
    IF n < DaysInMonth(y, m) THEN <<y, m, n + 1>>
    ELSE FromOrdinal(IF m = 12 THEN y + 1 ELSE y, IF m = 12 THEN 1 ELSE m + 1,
                     n - DaysInMonth(y, m))

\* the date string of the day with ordinal d (day 0 is 2024-01-01)
strftime(d) == FromOrdinal(EpochYear, 1, d)

----------------------------------------------------------------------------
(* State after import of every module and construction of HomeScreen *)

EmptyUserForm == [name_entry |-> <<>>, age_entry |-> <<>>, goal_entry |-> ""]
EmptyWorkoutForm ==
    [exercise_entry |-> "", duration_entry |-> <<>>, calories_entry |-> <<>>, notes_text |-> ""]
EmptyGoalForm == [goal_entry |-> <<>>]
EmptyMealForm ==
    [meal_type |-> "", calories_entry |-> <<>>, protein_entry |-> <<>>,
     carbs_entry |-> <<>>, fats_entry |-> <<>>]

Zero == [num |-> 0, den |-> 1]

InitScreens ==
    /\ opened = {}
    /\ userForm = EmptyUserForm
    /\ profile_display = <<>>
    /\ workoutForm = EmptyWorkoutForm
    /\ tree = <<>>
    /\ selection = 0
    /\ notes_shown = <<>>
    /\ goalForm = EmptyGoalForm
    /\ progress_var = Zero
    /\ progress_label = <<0>>
    /\ mealForm = EmptyMealForm
    /\ meal_tree = <<>>
    /\ weekly_report = <<>>
    /\ report_summary = <<>>
    /\ chart = <<>>
    /\ tips = <<>>
    /\ prompt = FALSE
    /\ op = "start"
    /\ dialogs = <<>>

FirstDay == 62

Init ==
    /\ users = <<>>
    /\ workouts = <<>>
    /\ meals = <<>>
    /\ goals = <<>>
    /\ today = FirstDay
    /\ corrupt = {}
    /\ InitScreens

----------------------------------------------------------------------------
(* UserScreen *)

open_users ==
    /\ ~prompt
    /\ opened' = opened \cup {"users"}
    /\ userForm' = EmptyUserForm
    /\ profile_display' = <<>>
    /\ op' = "open_users"
    /\ dialogs' = <<>>
    /\ UNCHANGED <<files, today, corrupt, workoutVars, goalVars, mealVars, reportVars>>

\* the user edits the three entries
type_user(n, a, g) ==
    /\ ~prompt
    /\ "users" \in opened
    /\ userForm' = [name_entry |-> n, age_entry |-> a, goal_entry |-> g]
    /\ op' = "type_user"
    /\ dialogs' = <<>>
    /\ UNCHANGED <<files, today, corrupt, opened, profile_display, workoutVars, goalVars, mealVars,
                   reportVars>>

display_profile(user) == <<user.name, Str(user.age), user.goal>>

\* OtherUsers comparing the names as typed
OtherUsers_CaseSensitive(us, name) == SelectSeq(us, LAMBDA u : u.name # name)

\* OtherUsers that drops nothing
OtherUsers_KeepAll(us, name) == us

\* users without the records whose name matches, case-insensitively
OtherUsers(us, name) == SelectSeq(us, LAMBDA u : Lower(u.name) # Lower(name))

save_user ==
    /\ ~prompt
    /\ "users" \in opened
    /\ op' = "save_user"
    /\ LET name == userForm.name_entry
           age == userForm.age_entry
           goal == userForm.goal_entry
       IN  IF name = <<>> \/ age = <<>> \/ goal = ""
           THEN /\ dialogs' = <<"Input Error">>
                /\ UNCHANGED <<users, profile_display>>
           ELSE IF ~IsIntText(age)
           THEN /\ dialogs' = <<"Invalid Age">>
                /\ UNCHANGED <<users, profile_display>>
           ELSE IF "users" \in corrupt
           THEN /\ dialogs' = <<>>
                /\ UNCHANGED <<users, profile_display>>
           ELSE LET user_data == [name |-> name, age |-> IntValue(age), goal |-> goal]
                IN  /\ users' = Append(OtherUsers(users, name), user_data)
                    /\ dialogs' = <<"Success">>
                    /\ profile_display' = display_profile(user_data)
    /\ UNCHANGED <<workouts, meals, goals, today, corrupt, opened, userForm, workoutVars, goalVars,
                   mealVars, reportVars>>

\* delete_user without the "nothing was removed" test
delete_user_AlwaysDeleted ==
    /\ ~prompt
    /\ "users" \in opened
    /\ op' = "delete_user"
    /\ LET name == userForm.name_entry
       IN  IF name = <<>>
           THEN /\ dialogs' = <<"Input Error">>
                /\ UNCHANGED <<users, profile_display>>
           ELSE IF "users" \in corrupt
           THEN /\ dialogs' = <<>>
                /\ UNCHANGED <<users, profile_display>>
           ELSE /\ users' = OtherUsers(users, name)
                /\ dialogs' = <<"Deleted">>
                /\ profile_display' = <<>>
    /\ UNCHANGED <<workouts, meals, goals, today, corrupt, opened, userForm, workoutVars, goalVars,
                   mealVars, reportVars>>

delete_user ==
    /\ ~prompt
    /\ "users" \in opened
    /\ op' = "delete_user"
    /\ LET name == userForm.name_entry
           new_users == OtherUsers(users, name)
       IN  IF name = <<>>
           THEN /\ dialogs' = <<"Input Error">>
                /\ UNCHANGED <<users, profile_display>>
           ELSE IF "users" \in corrupt
           THEN /\ dialogs' = <<>>
                /\ UNCHANGED <<users, profile_display>>
           ELSE IF Len(new_users) = Len(users)
           THEN /\ dialogs' = <<"Not Found">>
                /\ UNCHANGED <<users, profile_display>>
           ELSE /\ users' = new_users
                /\ dialogs' = <<"Deleted">>
                /\ profile_display' = <<>>
    /\ UNCHANGED <<workouts, meals, goals, today, corrupt, opened, userForm, workoutVars, goalVars,
                   mealVars, reportVars>>

\* indices of the records whose name matches, case-insensitively
Matches(us, name) == {i \in 1..Len(us) : Lower(us[i].name) = Lower(name)}

Min(S) == CHOOSE x \in S : \A y \in S : x <= y

load_user ==
    /\ ~prompt
    /\ "users" \in opened
    /\ op' = "load_user"
    /\ LET name == userForm.name_entry
       IN  IF name = <<>>
           THEN /\ dialogs' = <<"Input Error">>
                /\ UNCHANGED <<userForm, profile_display>>
           ELSE IF "users" \in corrupt
           THEN /\ dialogs' = <<>>
                /\ UNCHANGED <<userForm, profile_display>>
           ELSE IF Matches(users, name) = {}
           THEN /\ dialogs' = <<"Not Found">>
                /\ UNCHANGED <<userForm, profile_display>>
           ELSE /\ profile_display' = display_profile(users[Min(Matches(users, name))])
                /\ userForm' = EmptyUserForm
                /\ dialogs' = <<>>
    /\ UNCHANGED <<files, today, corrupt, opened, workoutVars, goalVars, mealVars, reportVars>>

\* what the user types into the UserScreen entries
NameTexts == {<<>>, <<"a">>, <<"A">>, <<"b">>}
AgeTexts == {<<>>, <<"x">>, <<" ", "3", "0">>, <<"-", "3">>}
GoalTexts == {"", "fit"}

NextUsers ==
    \/ open_users
    \/ \E n \in NameTexts, a \in AgeTexts, g \in GoalTexts : type_user(n, a, g)
    \/ save_user
    \/ delete_user
    \/ load_user

SpecUsers == Init /\ [][NextUsers]_vars

----------------------------------------------------------------------------
(* WorkoutScreen *)

\* the rows load_workouts inserts: the displayed fields, as Tk strings
Rows(ws) ==
    [i \in 1..Len(ws) |->
        <<ws[i].date, ws[i].type, Str(ws[i].duration), Str(ws[i].calories)>>]

open_workouts ==
    /\ ~prompt
    /\ opened' = opened \cup {"workouts"}
    /\ workoutForm' = EmptyWorkoutForm
    /\ tree' = IF "workouts" \in corrupt THEN <<>> ELSE Rows(workouts)
    /\ selection' = 0
    /\ notes_shown' = <<>>
    /\ op' = "open_workouts"
    /\ dialogs' = IF "workouts" \in corrupt THEN <<"Error">> ELSE <<>>
    /\ UNCHANGED <<files, today, corrupt, userVars, goalVars, mealVars, reportVars>>

\* the user edits the four inputs
type_workout(e, d, c, n) ==
    /\ ~prompt
    /\ "workouts" \in opened
    /\ workoutForm' = [exercise_entry |-> e, duration_entry |-> d, calories_entry |-> c,
                       notes_text |-> n]
    /\ op' = "type_workout"
    /\ dialogs' = <<>>
    /\ UNCHANGED <<files, today, corrupt, opened, tree, selection, notes_shown, userVars, goalVars,
                   mealVars, reportVars>>

log_workout ==
    /\ ~prompt
    /\ "workouts" \in opened
    /\ op' = "log_workout"
    /\ LET exercise == workoutForm.exercise_entry
           duration == workoutForm.duration_entry
           calories == workoutForm.calories_entry
           notes == workoutForm.notes_text
       IN  IF exercise = "" \/ duration = <<>> \/ calories = <<>>
           THEN /\ dialogs' = <<"Input Error">>
                /\ UNCHANGED <<workouts, workoutVars>>
           ELSE IF ~IsIntText(duration) \/ ~IsIntText(calories)
           THEN /\ dialogs' = <<"Invalid Input">>
                /\ UNCHANGED <<workouts, workoutVars>>
           ELSE IF "workouts" \in corrupt
           THEN /\ dialogs' = <<>>
                /\ UNCHANGED <<workouts, workoutVars>>
           ELSE LET workout == [date |-> strftime(today), type |-> exercise,
                                duration |-> IntValue(duration),
                                calories |-> IntValue(calories), notes |-> notes]
                IN  /\ Len(workouts) < MaxWorkouts
                    /\ workouts' = Append(workouts, workout)
                    /\ dialogs' = <<"Success">>
                    /\ workoutForm' = EmptyWorkoutForm
                    /\ tree' = Rows(workouts')
                    /\ selection' = 0
                    /\ UNCHANGED notes_shown
    /\ UNCHANGED <<users, meals, goals, today, corrupt, opened, userVars, goalVars, mealVars,
                   reportVars>>

\* the user clicks a row of the table
select_row(i) ==
    /\ ~prompt
    /\ "workouts" \in opened
    /\ i \in 1..Len(tree)
    /\ selection' = i
    /\ op' = "select_row"
    /\ dialogs' = <<>>
    /\ UNCHANGED <<files, today, corrupt, opened, workoutForm, tree, notes_shown, userVars,
                   goalVars,
                   mealVars, reportVars>>

\* the record is the one the selected row stands for, as delete_selected tests it
SameRow(w, values) ==
    /\ w.date = values[1]
    /\ w.type = values[2]
    /\ Str(w.duration) = values[3]

delete_selected ==
    /\ ~prompt
    /\ "workouts" \in opened
    /\ op' = "delete_selected"
    /\ IF selection = 0
       THEN /\ dialogs' = <<"Select">>
            /\ UNCHANGED <<workouts, workoutVars>>
       ELSE IF "workouts" \in corrupt
       THEN /\ dialogs' = <<>>
            /\ UNCHANGED <<workouts, workoutVars>>
       ELSE LET values == tree[selection]
            IN  /\ workouts' = SelectSeq(workouts, LAMBDA w : ~SameRow(w, values))
                /\ dialogs' = <<"Deleted">>
                /\ tree' = Rows(workouts')
                /\ selection' = 0
                /\ UNCHANGED <<workoutForm, notes_shown>>
    /\ UNCHANGED <<users, meals, goals, today, corrupt, opened, userVars, goalVars, mealVars,
                   reportVars>>

\* the record is the one the double-clicked row stands for
SameRowNotes(w, values) ==
    <<w.date, w.type, Str(w.duration)>> = <<values[1], values[2], values[3]>>

\* a double-click on the table; with no row selected selection()[0] raises
\* IndexError, which Tk reports on stderr
on_row_double_click ==
    /\ ~prompt
    /\ "workouts" \in opened
    /\ op' = "on_row_double_click"
    /\ IF selection = 0
       THEN /\ dialogs' = <<>>
            /\ UNCHANGED notes_shown
       ELSE IF "workouts" \in corrupt
       THEN /\ dialogs' = <<>>
            /\ UNCHANGED notes_shown
       ELSE LET values == tree[selection]
                found == SelectSeq(workouts, LAMBDA w : SameRowNotes(w, values))
            IN  /\ dialogs' = [i \in 1..Len(found) |-> "Workout Notes"]
                /\ notes_shown' = [i \in 1..Len(found) |-> Get(found[i], "notes", "none")]
    /\ UNCHANGED <<files, today, corrupt, opened, workoutForm, tree, selection, userVars, goalVars,
                   mealVars, reportVars>>

----------------------------------------------------------------------------
(* GoalScreen *)

Frac(n, d) == IF d < 0 THEN [num |-> 0 - n, den |-> 0 - d] ELSE [num |-> n, den |-> d]

Hundred == [num |-> 100, den |-> 1]

\* sum(w.get("calories", 0) for w in workouts)
total_burned(ws) == SumSeq([i \in 1..Len(ws) |-> Get(ws[i], "calories", 0)])

\* Progress with "if goal else 100"
Progress_ZeroGoalDone(total, goal) ==
    LET x == IF goal # 0 THEN Frac(total * 100, goal) ELSE Hundred
    IN  IF x.num < 100 * x.den THEN x ELSE Hundred

\* Progress without the min(100, ...)
Progress_NoCap(total, goal) == IF goal # 0 THEN Frac(total * 100, goal) ELSE Zero

\* min(100, (total_burned / goal) * 100 if goal else 0)
Progress(total, goal) ==
    LET x == IF goal # 0 THEN Frac(total * 100, goal) ELSE Zero
    IN  IF x.num < 100 * x.den THEN x ELSE Hundred

\* update_progress asking only once the total exceeds the goal
update_progress_OverOnly(goal_data, shown) ==
    LET goal == Get(goal_data, "calorie_goal", 0)
        total == total_burned(workouts)
        progress == Progress(total, goal)
    IN  IF {"goals", "workouts"} \cap corrupt' # {}
        THEN /\ dialogs' = shown
             /\ UNCHANGED <<progress_var, progress_label, prompt>>
        ELSE /\ progress_var' = progress
             /\ progress_label' = <<Trunc(progress.num, progress.den), total, goal>>
             /\ prompt' = (goal # 0 /\ total > goal)
             /\ dialogs' = IF goal # 0 /\ total > goal
                           THEN Append(shown, "Goal Completed") ELSE shown

\* update_progress up to its askyesno; shown: the dialogs the caller raised
\* before.  corrupt' is the state of the files when it runs: a failing open()
\* or json.load() raises before any widget is touched
update_progress(goal_data, shown) ==
    LET goal == Get(goal_data, "calorie_goal", 0)
        total == total_burned(workouts)
        progress == Progress(total, goal)
    IN  IF {"goals", "workouts"} \cap corrupt' # {}
        THEN /\ dialogs' = shown
             /\ UNCHANGED <<progress_var, progress_label, prompt>>
        ELSE /\ progress_var' = progress
             /\ progress_label' = <<Trunc(progress.num, progress.den), total, goal>>
             /\ prompt' = (progress.num >= 100 * progress.den)
             /\ dialogs' = IF progress.num >= 100 * progress.den
                           THEN Append(shown, "Goal Completed") ELSE shown

\* the entry text load_existing_goal leaves
load_existing_goal ==
    LET goal == Get(goals, "calorie_goal", 0)
    IN  IF goal # 0 THEN Str(goal) ELSE <<>>

\* GoalScreen(...) under the launcher's try/except: the widgets are built
\* with their initial values, then load_existing_goal and update_progress run
open_goals ==
    /\ ~prompt
    /\ opened' = opened \cup {"goals"}
    /\ op' = "open_goals"
    /\ UNCHANGED corrupt
    /\ IF "goals" \in corrupt
       THEN /\ goalForm' = EmptyGoalForm
            /\ progress_var' = Zero
            /\ progress_label' = <<0>>
            /\ prompt' = FALSE
            /\ dialogs' = <<"Error">>
       ELSE IF "workouts" \in corrupt
       THEN /\ goalForm' = [goal_entry |-> load_existing_goal]
            /\ progress_var' = Zero
            /\ progress_label' = <<0>>
            /\ prompt' = FALSE
            /\ dialogs' = <<"Error">>
       ELSE /\ goalForm' = [goal_entry |-> load_existing_goal]
            /\ update_progress(goals, <<>>)
    /\ UNCHANGED <<files, today, userVars, workoutVars, mealVars, reportVars>>

\* the user edits the goal entry
type_goal(t) ==
    /\ ~prompt
    /\ "goals" \in opened
    /\ goalForm' = [goal_entry |-> t]
    /\ op' = "type_goal"
    /\ dialogs' = <<>>
    /\ UNCHANGED <<files, today, corrupt, opened, progress_var, progress_label, prompt, userVars,
                   workoutVars, mealVars, reportVars>>

\* set_goal without the "goal <= 0" test
set_goal_AnySign ==
    /\ ~prompt
    /\ "goals" \in opened
    /\ op' = "set_goal"
    /\ IF ~IsIntText(goalForm.goal_entry)
       THEN /\ dialogs' = <<"Invalid">>
            /\ UNCHANGED <<goals, corrupt, goalVars>>
       ELSE /\ goals' = [calorie_goal |-> IntValue(goalForm.goal_entry)]
            /\ corrupt' = corrupt \ {"goals"}
            /\ update_progress(goals', <<"Saved">>)
            /\ UNCHANGED goalForm
    /\ UNCHANGED <<users, workouts, meals, today, opened, userVars, workoutVars, mealVars,
                   reportVars>>

\* set_goal with "goal < 0" as its test
set_goal_ZeroAllowed ==
    /\ ~prompt
    /\ "goals" \in opened
    /\ op' = "set_goal"
    /\ IF ~IsIntText(goalForm.goal_entry) \/ IntValue(goalForm.goal_entry) < 0
       THEN /\ dialogs' = <<"Invalid">>
            /\ UNCHANGED <<goals, corrupt, goalVars>>
       ELSE /\ goals' = [calorie_goal |-> IntValue(goalForm.goal_entry)]
            /\ corrupt' = corrupt \ {"goals"}
            /\ update_progress(goals', <<"Saved">>)
            /\ UNCHANGED goalForm
    /\ UNCHANGED <<users, workouts, meals, today, opened, userVars, workoutVars, mealVars,
                   reportVars>>

set_goal ==
    /\ ~prompt
    /\ "goals" \in opened
    /\ op' = "set_goal"
    /\ IF ~IsIntText(goalForm.goal_entry) \/ IntValue(goalForm.goal_entry) <= 0
       THEN /\ dialogs' = <<"Invalid">>
            /\ UNCHANGED <<goals, corrupt, goalVars>>
       ELSE /\ goals' = [calorie_goal |-> IntValue(goalForm.goal_entry)]
            /\ corrupt' = corrupt \ {"goals"}
            /\ update_progress(goals', <<"Saved">>)
            /\ UNCHANGED goalForm
    /\ UNCHANGED <<users, workouts, meals, today, opened, userVars, workoutVars, mealVars,
                   reportVars>>

\* the "Refresh Progress" button
refresh_progress ==
    /\ ~prompt
    /\ "goals" \in opened
    /\ UNCHANGED corrupt
    /\ update_progress(goals, <<>>)
    /\ op' = "update_progress"
    /\ UNCHANGED <<files, today, opened, goalForm, userVars, workoutVars, mealVars,
                   reportVars>>

\* the reset that also empties the goal file
reset_progress_and_goal_ClearsGoal ==
    /\ workouts' = <<>>
    /\ goals' = <<>>
    /\ corrupt' = corrupt \ {"workouts", "goals"}
    /\ goalForm' = EmptyGoalForm
    /\ progress_var' = Zero
    /\ progress_label' = <<0>>
    /\ dialogs' = Append(dialogs, "Reset")
    /\ op' = "reset_progress_and_goal"

reset_progress_and_goal ==
    /\ workouts' = <<>>
    /\ goals' = goals
    /\ corrupt' = corrupt \ {"workouts"}
    /\ goalForm' = EmptyGoalForm
    /\ progress_var' = Zero
    /\ progress_label' = <<0>>
    /\ dialogs' = Append(dialogs, "Reset")
    /\ op' = "reset_progress_and_goal"

\* the user answers the "Goal Completed" askyesno and update_progress resumes
answer_goal_completed(response) ==
    /\ prompt
    /\ prompt' = FALSE
    /\ IF response
       THEN reset_progress_and_goal
       ELSE /\ op' = "keep_progress"
            /\ UNCHANGED <<workouts, goals, corrupt, goalForm, progress_var, progress_label,
                           dialogs>>
    /\ UNCHANGED <<users, meals, today, opened, userVars, workoutVars, mealVars, reportVars>>

\* the last handler ran update_progress
Updated ==
    \/ op \in {"open_goals", "update_progress"}
    \/ op = "set_goal" /\ dialogs # <<"Invalid">>

\* what the user types into the WorkoutScreen and GoalScreen inputs
ExerciseTexts == {"", "run"}
DurationTexts == {<<>>, <<"3", "0">>}
CalorieTexts == {<<"x">>, <<"1", "0", "0">>, <<"2", "5", "0">>}
NoteTexts == {""}
GoalEntryTexts == {<<>>, <<"0">>, <<"-", "5">>, <<"2", "0", "0">>, <<"3", "0", "0">>}

NextGoals ==
    \/ open_workouts
    \/ \E e \in ExerciseTexts, d \in DurationTexts, c \in CalorieTexts, n \in NoteTexts :
          type_workout(e, d, c, n)
    \/ log_workout
    \/ open_goals
    \/ \E t \in GoalEntryTexts : type_goal(t)
    \/ set_goal
    \/ refresh_progress
    \/ \E response \in BOOLEAN : answer_goal_completed(response)

SpecGoals == Init /\ [][NextGoals]_vars

\* workouts the user logs, told apart by calories and notes only
LoggedInputs ==
    { <<"run", <<"3", "0">>, <<"1", "0", "0">>, "easy">>,
      <<"run", <<"3", "0">>, <<"2", "5", "0">>, "hard">> }

\* the WorkoutScreen with its table, next to the GoalScreen
NextWorkouts ==
    \/ open_workouts
    \/ \E f \in LoggedInputs : type_workout(f[1], f[2], f[3], f[4])
    \/ log_workout
    \/ \E i \in 1..MaxWorkouts : select_row(i)
    \/ delete_selected
    \/ on_row_double_click
    \/ open_goals
    \/ type_goal(<<"2", "0", "0">>)
    \/ set_goal
    \/ refresh_progress
    \/ \E response \in BOOLEAN : answer_goal_completed(response)

SpecWorkouts == Init /\ [][NextWorkouts]_vars

\* calorie texts int() accepts, of either sign
SignedInputs ==
    { <<"run", <<"3", "0">>, <<"2", "5", "0">>, "">>,
      <<"run", <<"3", "0">>, <<"-", "5", "0">>, "">>,
      <<"run", <<"3", "0">>, <<"x">>, "">> }

\* logging workouts and watching the progress bar
NextBar ==
    \/ open_workouts
    \/ \E f \in SignedInputs : type_workout(f[1], f[2], f[3], f[4])
    \/ log_workout
    \/ open_goals
    \/ \E t \in {<<"2", "0", "0">>, <<"-", "5">>} : type_goal(t)
    \/ set_goal
    \/ refresh_progress
    \/ \E response \in BOOLEAN : answer_goal_completed(response)

SpecBar == Init /\ [][NextBar]_vars

\* every sequence over S of length at most n
SeqsUpTo(S, n) == UNION {[1..k -> S] : k \in 0..n}

\* goal files and workout files a GoalScreen can meet on disk
DrawnGoals == {<<>>, [calorie_goal |-> 0], [calorie_goal |-> 200], [calorie_goal |-> 300]}
DrawnWorkouts ==
    {[date |-> strftime(d), type |-> "run", duration |-> 30, calories |-> c, notes |-> ""] :
        d \in {FirstDay - 8, FirstDay}, c \in {0 - 50, 100, 150, 250}}

InitProgress ==
    /\ users = <<>>
    /\ workouts \in SeqsUpTo(DrawnWorkouts, MaxWorkouts)
    /\ meals = <<>>
    /\ goals \in DrawnGoals
    /\ today = FirstDay
    /\ corrupt = {}
    /\ InitScreens

NextProgress ==
    \/ open_goals
    \/ \E t \in GoalEntryTexts : type_goal(t)
    \/ set_goal
    \/ refresh_progress
    \/ \E response \in BOOLEAN : answer_goal_completed(response)

SpecProgress == InitProgress /\ [][NextProgress]_vars

----------------------------------------------------------------------------
(* Weekly aggregation: GoalScreen.show_report and ReportScreen *)

\* a 7-day window that starts one day early and has 8 days
WeekDays_Eight(t) == [k \in 1..8 |-> strftime(t - 8 + k)]

\* [(today - timedelta(days=i)).strftime("%Y-%m-%d") for i in range(6, -1, -1)]
WeekDays(t) == [k \in 1..7 |-> strftime(t - 7 + k)]

\* the dict {day: calories} after the accumulation loop, in insertion order
DailySummary(ws, t) ==
    [k \in 1..Len(WeekDays(t)) |->
        <<WeekDays(t)[k],
          total_burned(SelectSeq(ws, LAMBDA w : Get(w, "date", <<>>) = WeekDays(t)[k]))>>]

show_report ==
    /\ ~prompt
    /\ "goals" \in opened
    /\ LET data == IF "workouts" \in corrupt THEN <<>> ELSE workouts
           daily_summary == DailySummary(data, today)
       IN  weekly_report' =
               [days |-> daily_summary,
                total |-> SumSeq([k \in 1..Len(daily_summary) |-> daily_summary[k][2]])]
    /\ dialogs' = <<"Weekly Report">>
    /\ op' = "show_report"
    /\ UNCHANGED <<files, today, corrupt, opened, userVars, workoutVars, goalVars, mealVars,
                   report_summary, chart, tips>>

\* round(10 * total / n) to the nearest integer, ties to even
Tenths(total, n) ==
    LET q == (10 * total) \div n
        r == (10 * total) % n
    IN  IF 2 * r < n THEN q
        ELSE IF 2 * r > n THEN q + 1
        ELSE IF q % 2 = 0 THEN q ELSE q + 1

\* the endurance message of build_fitness_report
Insight(ws) ==
    LET n == Len(ws)
        avg10 == IF n # 0 THEN Tenths(SumSeq([i \in 1..n |-> Get(ws[i], "duration", 0)]), n)
                 ELSE 0
    IN  IF avg10 >= 400 THEN "great"
        ELSE IF avg10 >= 250 THEN "moderate"
        ELSE IF avg10 > 0 THEN "short" ELSE "none"

MealTotal(ms, field) == SumSeq([i \in 1..Len(ms) |-> Get(ms[i], field, 0)])

\* a chart window that ends yesterday
ChartDays_Yesterday(t) == [k \in 1..7 |-> strftime(t - (7 - k) - 1)]

\* show_fitness_chart: days = [... for i in range(6, -1, -1)], i = 7 - k
ChartDays(t) == [k \in 1..7 |-> strftime(t - (7 - k))]

\* show_fitness_chart: calories_by_day after the loop, keys in insertion order;
\* the loop reads w["date"] and w.get("calories", 0)
CaloriesByDay(ws, t) ==
    LET days == ChartDays(t)
        acc[i \in 0..Len(ws)] ==
            IF i = 0 THEN [k \in 1..Len(days) |-> 0]
            ELSE [k \in 1..Len(days) |->
                     IF ws[i].date = days[k] THEN acc[i - 1][k] + Get(ws[i], "calories", 0)
                     ELSE acc[i - 1][k]]
    IN  [k \in 1..Len(days) |-> <<days[k], acc[Len(ws)][k]>>]

open_reports ==
    /\ ~prompt
    /\ opened' = opened \cup {"reports"}
    /\ op' = "open_reports"
    /\ IF "workouts" \in corrupt
       THEN \* build_fitness_report raises at its read
            /\ report_summary' = <<>>
            /\ chart' = <<>>
            /\ dialogs' = <<"Error">>
       ELSE IF "meals" \in corrupt
       THEN \* build_nutrition_report raises at its read
            /\ report_summary' =
                   [total_workouts |-> Len(workouts),
                    total_calories |-> total_burned(workouts), insight |-> Insight(workouts)]
            /\ chart' = CaloriesByDay(workouts, today)
            /\ dialogs' = <<"Error">>
       ELSE /\ report_summary' =
                   [total_workouts |-> Len(workouts),
                    total_calories |-> total_burned(workouts),
                    insight |-> Insight(workouts), meals |-> Len(meals),
                    protein |-> MealTotal(meals, "protein"),
                    carbs |-> MealTotal(meals, "carbs"),
                    fats |-> MealTotal(meals, "fats"),
                    calories |-> MealTotal(meals, "calories")]
            /\ chart' = CaloriesByDay(workouts, today)
            /\ dialogs' = <<>>
    /\ UNCHANGED <<files, today, corrupt, userVars, workoutVars, goalVars, mealVars, weekly_report,
                   tips>>

\* workout files a report can meet on disk: dated from 8 days ago to tomorrow
DrawnDays == (FirstDay - 8)..(FirstDay + 1)
DatedWorkouts ==
    {[date |-> strftime(d), type |-> "run", duration |-> 30, calories |-> c, notes |-> ""] :
        d \in DrawnDays, c \in {100, 250}}

InitWeekly ==
    /\ users = <<>>
    /\ workouts \in SeqsUpTo(DatedWorkouts, MaxWorkouts)
    /\ meals = <<>>
    /\ goals = <<>>
    /\ today = FirstDay
    /\ corrupt = {}
    /\ InitScreens

NextWeekly ==
    \/ open_goals
    \/ show_report
    \/ open_reports

SpecWeekly == InitWeekly /\ [][NextWeekly]_vars

----------------------------------------------------------------------------
(* NutritionScreen *)

MealRows(ms) ==
    [i \in 1..Len(ms) |->
        <<ms[i].date, ms[i].type, Str(ms[i].calories), Str(ms[i].protein),
          Str(ms[i].carbs), Str(ms[i].fats)>>]

open_nutrition ==
    /\ ~prompt
    /\ opened' = opened \cup {"nutrition"}
    /\ mealForm' = EmptyMealForm
    /\ meal_tree' = IF "meals" \in corrupt THEN <<>> ELSE MealRows(meals)
    /\ op' = "open_nutrition"
    /\ dialogs' = IF "meals" \in corrupt THEN <<"Error">> ELSE <<>>
    /\ UNCHANGED <<files, today, corrupt, userVars, workoutVars, goalVars, reportVars>>

\* the user edits the meal form
type_meal(form) ==
    /\ ~prompt
    /\ "nutrition" \in opened
    /\ mealForm' = form
    /\ op' = "type_meal"
    /\ dialogs' = <<>>
    /\ UNCHANGED <<files, today, corrupt, opened, meal_tree, userVars, workoutVars, goalVars,
                   reportVars>>

\* log_meal with data.insert(0, meal_data)
log_meal_Prepend ==
    /\ ~prompt
    /\ "nutrition" \in opened
    /\ op' = "log_meal"
    /\ LET meal == mealForm.meal_type
       IN  IF \/ ~IsIntText(mealForm.calories_entry)
              \/ ~IsIntText(mealForm.protein_entry)
              \/ ~IsIntText(mealForm.carbs_entry)
              \/ ~IsIntText(mealForm.fats_entry)
           THEN /\ dialogs' = <<"Invalid">>
                /\ UNCHANGED <<meals, mealVars>>
           ELSE IF meal = ""
           THEN /\ dialogs' = <<"Missing">>
                /\ UNCHANGED <<meals, mealVars>>
           ELSE IF "meals" \in corrupt
           THEN /\ dialogs' = <<>>
                /\ UNCHANGED <<meals, mealVars>>
           ELSE LET meal_data == [date |-> strftime(today), type |-> meal,
                                  calories |-> IntValue(mealForm.calories_entry),
                                  protein |-> IntValue(mealForm.protein_entry),
                                  carbs |-> IntValue(mealForm.carbs_entry),
                                  fats |-> IntValue(mealForm.fats_entry)]
                IN  /\ Len(meals) < MaxMeals
                    /\ meals' = <<meal_data>> \o meals
                    /\ dialogs' = <<"Logged">>
                    /\ mealForm' = EmptyMealForm
                    /\ meal_tree' = MealRows(meals')
    /\ UNCHANGED <<users, workouts, goals, today, corrupt, opened, userVars, workoutVars, goalVars,
                   reportVars>>

log_meal ==
    /\ ~prompt
    /\ "nutrition" \in opened
    /\ op' = "log_meal"
    /\ LET meal == mealForm.meal_type
       IN  IF \/ ~IsIntText(mealForm.calories_entry)
              \/ ~IsIntText(mealForm.protein_entry)
              \/ ~IsIntText(mealForm.carbs_entry)
              \/ ~IsIntText(mealForm.fats_entry)
           THEN /\ dialogs' = <<"Invalid">>
                /\ UNCHANGED <<meals, mealVars>>
           ELSE IF meal = ""
           THEN /\ dialogs' = <<"Missing">>
                /\ UNCHANGED <<meals, mealVars>>
           ELSE IF "meals" \in corrupt
           THEN /\ dialogs' = <<>>
                /\ UNCHANGED <<meals, mealVars>>
           ELSE LET meal_data == [date |-> strftime(today), type |-> meal,
                                  calories |-> IntValue(mealForm.calories_entry),
                                  protein |-> IntValue(mealForm.protein_entry),
                                  carbs |-> IntValue(mealForm.carbs_entry),
                                  fats |-> IntValue(mealForm.fats_entry)]
                IN  /\ Len(meals) < MaxMeals
                    /\ meals' = Append(meals, meal_data)
                    /\ dialogs' = <<"Logged">>
                    /\ mealForm' = EmptyMealForm
                    /\ meal_tree' = MealRows(meals')
    /\ UNCHANGED <<users, workouts, goals, today, corrupt, opened, userVars, workoutVars, goalVars,
                   reportVars>>

\* data[0] in place of data[-1]
Latest_First(data) == data[1]

\* data[-1]
Latest(data) == data[Len(data)]

\* the tips without the "if not tips" test before the balanced message
Tips_AlwaysBalanced(latest) ==
    (IF latest.protein < 10 THEN <<"protein">> ELSE <<>>)
    \o (IF latest.carbs > 100 THEN <<"carbs">> ELSE <<>>)
    \o (IF latest.fats > 40 THEN <<"fats">> ELSE <<>>)
    \o (IF latest.calories > 700 THEN <<"calories">> ELSE <<>>)
    \o <<"balanced">>

\* the list show_tip joins into its message
Tips(latest) ==
    LET t1 == IF latest.protein < 10 THEN <<"protein">> ELSE <<>>
        t2 == IF latest.carbs > 100 THEN Append(t1, "carbs") ELSE t1
        t3 == IF latest.fats > 40 THEN Append(t2, "fats") ELSE t2
        t4 == IF latest.calories > 700 THEN Append(t3, "calories") ELSE t3
    IN  IF t4 = <<>> THEN <<"balanced">> ELSE t4

\* show_tip without its try/except around the read
show_tip_NoTry ==
    /\ ~prompt
    /\ "nutrition" \in opened
    /\ op' = "show_tip"
    /\ IF "meals" \in corrupt
       THEN /\ dialogs' = <<>>
            /\ UNCHANGED tips
       ELSE IF meals = <<>>
       THEN /\ dialogs' = <<"Tip">>
            /\ tips' = <<"log some meals">>
       ELSE /\ dialogs' = <<"Nutrition Tip">>
            /\ tips' = Tips(Latest(meals))
    /\ UNCHANGED <<files, today, corrupt, opened, userVars, workoutVars, goalVars, mealVars,
                   weekly_report, report_summary, chart>>

show_tip ==
    /\ ~prompt
    /\ "nutrition" \in opened
    /\ op' = "show_tip"
    /\ LET data == IF "meals" \in corrupt THEN <<>> ELSE meals
       IN  IF data = <<>>
           THEN /\ dialogs' = <<"Tip">>
                /\ tips' = <<"log some meals">>
           ELSE /\ dialogs' = <<"Nutrition Tip">>
                /\ tips' = Tips(Latest(data))
    /\ UNCHANGED <<files, today, corrupt, opened, userVars, workoutVars, goalVars, mealVars,
                   weekly_report, report_summary, chart>>

MealForm(t, cal, p, c, f) ==
    [meal_type |-> t, calories_entry |-> cal, protein_entry |-> p, carbs_entry |-> c,
     fats_entry |-> f]

\* what the user types into the meal form: each rule at and just past its threshold
MealInputs ==
    { MealForm("Lunch", <<"3", "0", "0">>, <<"5">>, <<"5", "0">>, <<"1", "0">>),
      MealForm("Lunch", <<"7", "0", "0">>, <<"1", "0">>, <<"1", "0", "0">>, <<"4", "0">>),
      MealForm("Lunch", <<"7", "0", "0">>, <<"9">>, <<"1", "0", "0">>, <<"4", "0">>),
      MealForm("Dinner", <<"7", "0", "0">>, <<"1", "0">>, <<"1", "0", "1">>, <<"4", "0">>),
      MealForm("Dinner", <<"7", "0", "0">>, <<"1", "0">>, <<"1", "0", "0">>, <<"4", "1">>),
      MealForm("Snack", <<"7", "0", "1">>, <<"1", "0">>, <<"1", "0", "0">>, <<"4", "0">>),
      MealForm("Snack", <<"7", "0", "1">>, <<"9">>, <<"1", "0", "1">>, <<"4", "1">>),
      MealForm("", <<"3", "0", "0">>, <<"5">>, <<"5", "0">>, <<"1", "0">>),
      MealForm("Lunch", <<"3", "0", "0">>, <<>>, <<"5", "0">>, <<"1", "0">>) }

NextTips ==
    \/ open_nutrition
    \/ \E form \in MealInputs : type_meal(form)
    \/ log_meal
    \/ show_tip

SpecTips == Init /\ [][NextTips]_vars

\* two different valid meals
LoggedMeals ==
    { MealForm("Lunch", <<"3", "0", "0">>, <<"5">>, <<"5", "0">>, <<"1", "0">>),
      MealForm("Dinner", <<"7", "0", "1">>, <<"9">>, <<"1", "0", "1">>, <<"4", "1">>) }

\* the two logging screens side by side
NextLogs ==
    \/ open_workouts
    \/ \E f \in LoggedInputs : type_workout(f[1], f[2], f[3], f[4])
    \/ log_workout
    \/ open_nutrition
    \/ \E form \in LoggedMeals : type_meal(form)
    \/ log_meal

SpecLogs == Init /\ [][NextLogs]_vars

----------------------------------------------------------------------------
(* The four forms side by side *)

\* what the user types into the four forms; a form not yet typed into, or
\* cleared by an accepted submission, is the submission with its fields missing
UserInputs ==
    { <<<<>>, <<"7">>, "fit">>, <<<<"a">>, <<"x">>, "fit">>, <<<<"a">>, <<"7">>, "fit">> }
WorkoutInputs ==
    { <<"run", <<"3", "0">>, <<"x">>>>, <<"run", <<"3", "0">>, <<"1", "0", "0">>>> }
GoalInputs == {<<"0">>, <<"9", "0", "0">>}
FormMealInputs ==
    { MealForm("Lunch", <<"3", "0", "0">>, <<"5">>, <<"5", "0">>, <<"1", "0">>),
      MealForm("", <<"3", "0", "0">>, <<"5">>, <<"5", "0">>, <<"1", "0">>) }

NextForms ==
    \/ open_users
    \/ \E f \in UserInputs : type_user(f[1], f[2], f[3])
    \/ save_user
    \/ open_workouts
    \/ \E f \in WorkoutInputs : type_workout(f[1], f[2], f[3], "")
    \/ log_workout
    \/ open_goals
    \/ \E t \in GoalInputs : type_goal(t)
    \/ set_goal
    \/ open_nutrition
    \/ \E form \in FormMealInputs : type_meal(form)
    \/ log_meal

SpecForms == Init /\ [][NextForms]_vars

----------------------------------------------------------------------------
(* Data files that cannot be read *)

\* a data file is truncated or overwritten with text that is not JSON, by
\* another program or an interrupted write
corrupt_file(f) ==
    /\ f \notin corrupt
    /\ Cardinality(corrupt) < MaxCorrupt
    /\ corrupt' = corrupt \cup {f}
    /\ op' = "corrupt_file"
    /\ dialogs' = <<>>
    /\ UNCHANGED <<files, today, opened, userVars, workoutVars, goalVars, mealVars,
                   reportVars>>

\* an installation in use: one workout, one meal and a goal already met
InitFailures ==
    /\ users = <<>>
    /\ workouts = <<[date |-> strftime(FirstDay), type |-> "run", duration |-> 30,
                       calories |-> 250, notes |-> "hard"]>>
    /\ meals = <<[date |-> strftime(FirstDay), type |-> "Lunch", calories |-> 701,
                    protein |-> 9, carbs |-> 101, fats |-> 41]>>
    /\ goals = [calorie_goal |-> 200]
    /\ today = FirstDay
    /\ corrupt = {}
    /\ InitScreens

\* the screens that read files, over files that can go bad at any time
NextFailures ==
    \/ \E f \in {"workouts", "meals", "goals"} : corrupt_file(f)
    \/ open_workouts
    \/ select_row(1)
    \/ delete_selected
    \/ on_row_double_click
    \/ open_goals
    \/ set_goal
    \/ refresh_progress
    \/ \E response \in BOOLEAN : answer_goal_completed(response)
    \/ show_report
    \/ open_nutrition
    \/ show_tip
    \/ open_reports

SpecFailures == InitFailures /\ [][NextFailures]_vars

----------------------------------------------------------------------------
(* The whole application: every screen, every handler *)

Next ==
    \/ NextUsers
    \/ NextGoals
    \/ \E i \in 1..MaxWorkouts : select_row(i)
    \/ delete_selected
    \/ on_row_double_click
    \/ show_report
    \/ open_reports
    \/ NextTips

Spec == Init /\ [][Next]_vars

----------------------------------------------------------------------------
(* Properties of the user store *)

SameKey(n1, n2) == Lower(n1) = Lower(n2)

\* the records of us whose key differs from name, in store order
Others(us, name) == SelectSeq(us, LAMBDA u : ~SameKey(u.name, name))

\* C1: an accepted save_user leaves exactly one record with the submitted
\* name's key, that record is the submitted one, and the records with another
\* key are all kept, unchanged and in their previous order.
C1_SaveReplaces ==
    [][(op' = "save_user" /\ dialogs' = <<"Success">>) =>
         LET name == userForm.name_entry
             hits == {i \in 1..Len(users') : SameKey(users'[i].name, name)}
         IN  /\ Cardinality(hits) = 1
             /\ \A i \in hits :
                    users'[i] = [name |-> name, age |-> IntValue(userForm.age_entry),
                                 goal |-> userForm.goal_entry]
             /\ Others(users', name) = Others(users, name)]_vars

\* an accepted save stored "A" next to an older record with another key
C1_Witness ==
    /\ op = "save_user"
    /\ dialogs = <<"Success">>
    /\ Len(users) = 2
    /\ users[1].name = <<"b">>
    /\ users[2].name = <<"A">>

\* C2: no two records of the user store have the same lower-cased name.
C2_UniqueNames ==
    \A i, j \in 1..Len(users) : SameKey(users[i].name, users[j].name) => i = j

\* two records are stored and the name just saved differs from "a" only in case
C2_Witness ==
    /\ Len(users) = 2
    /\ op = "save_user"
    /\ userForm.name_entry = <<"A">>
    /\ \E i \in 1..Len(users) : users[i].name = <<"A">>

\* C3: delete_user with a non-empty name that matches no record leaves the
\* store as it was and raises "Not Found" (and no "Deleted").
C3_DeleteMissing ==
    [][(/\ op' = "delete_user"
        /\ userForm.name_entry # <<>>
        /\ \A i \in 1..Len(users) : ~SameKey(users[i].name, userForm.name_entry)) =>
         (users' = users /\ dialogs' = <<"Not Found">>)]_vars

\* a delete of a name that is not in a non-empty store has run
C3_Witness ==
    /\ op = "delete_user"
    /\ dialogs = <<"Not Found">>
    /\ users # <<>>
    /\ userForm.name_entry # <<>>

----------------------------------------------------------------------------
(* Properties of the goal progress *)

\* the calories of every record of the workout file, added up over its indices
LifetimeCalories ==
    LET f[k \in 0..Len(workouts)] == IF k = 0 THEN 0 ELSE f[k - 1] + workouts[k].calories
    IN  f[Len(workouts)]

Smaller(a, b) == IF a <= b THEN a ELSE b

\* C4: with a persisted goal g > 0, update_progress sets the progress to
\* min(100, 100 * T / g), T the calories of all workout records whatever their
\* date; so it is exactly 100 as soon as T >= g.
C4_ProgressCapped ==
    (Updated /\ Get(goals, "calorie_goal", 0) > 0) =>
        LET g == goals.calorie_goal
            T == LifetimeCalories
        IN  /\ progress_var.den > 0
            /\ progress_var.num * g = Smaller(100 * g, 100 * T) * progress_var.den
            /\ (T >= g => progress_var = Hundred)

\* goal 200 and 250 calories burned over two records of different dates: 100 shown
C4_Witness ==
    /\ Updated
    /\ goals = [calorie_goal |-> 200]
    /\ Len(workouts) = 2
    /\ workouts[1].date # workouts[2].date
    /\ LifetimeCalories = 250
    /\ progress_var = Hundred

\* C5: with no persisted goal, or a persisted goal of 0, update_progress sets
\* the progress to 0 whatever the workouts are and does not offer the reset.
C5_NoGoalNoProgress ==
    (Updated /\ Get(goals, "calorie_goal", 0) = 0) =>
        /\ progress_var.num = 0
        /\ ~prompt
        /\ \A i \in 1..Len(dialogs) : dialogs[i] # "Goal Completed"

\* update_progress has run on a goal of 0 with calories burned
C5_Witness ==
    /\ Updated
    /\ goals = [calorie_goal |-> 0]
    /\ LifetimeCalories = 250
    /\ progress_var.num = 0

\* C9: an accepted reset empties the workout file and the goal entry and
\* leaves the goal file as it was, so the entry no longer shows the persisted goal.
C9_ResetKeepsGoalFile ==
    [][op' = "reset_progress_and_goal" =>
         /\ workouts' = <<>>
         /\ goalForm'.goal_entry = <<>>
         /\ goals' = goals
         /\ "calorie_goal" \in DOMAIN goals'
         /\ goalForm'.goal_entry # Str(goals'.calorie_goal)]_vars

\* a reset has run: the table still lists the workouts that made the goal of 200
C9_Witness ==
    /\ op = "reset_progress_and_goal"
    /\ workouts = <<>>
    /\ tree # <<>>
    /\ goals = [calorie_goal |-> 200]
    /\ goalForm.goal_entry = <<>>

----------------------------------------------------------------------------
(* Properties of the weekly aggregation *)

\* the calories of the workout records whose date string is day
CaloriesOn(day) ==
    LET f[k \in 0..Len(workouts)] ==
            IF k = 0 THEN 0
            ELSE f[k - 1] + (IF workouts[k].date = day THEN workouts[k].calories ELSE 0)
    IN  f[Len(workouts)]

\* the calories of the workout records dated today-6 .. today
CaloriesInWindow ==
    LET f[k \in 0..Len(workouts)] ==
            IF k = 0 THEN 0
            ELSE f[k - 1] + (IF \E d \in (today - 6)..today : workouts[k].date = strftime(d)
                             THEN workouts[k].calories ELSE 0)
    IN  f[Len(workouts)]

SevenBuckets(series) ==
    /\ Len(series) = 7
    /\ \A k \in 1..7 :
          /\ series[k][1] = strftime(today - 7 + k)
          /\ series[k][2] = CaloriesOn(series[k][1])
    /\ \A d \in DrawnDays :
          (d <= today - 7 \/ d > today) =>
              \A k \in 1..Len(series) : series[k][1] # strftime(d)

\* C6: the weekly report (and the fitness chart) has 7 buckets, today-6 ..
\* today ascending, each the calories of the records of that day; a record
\* dated 7 or more days back, or after today, is in no bucket and not in the total.
C6_WeeklyBuckets ==
    /\ op = "show_report" =>
          /\ SevenBuckets(weekly_report.days)
          /\ weekly_report.total = CaloriesInWindow
    /\ op = "open_reports" => SevenBuckets(chart)

\* a report over a record dated 8 days ago and a record dated today
C6_Witness ==
    /\ op = "show_report"
    /\ Len(workouts) = 2
    /\ workouts[1].date = strftime(today - 8)
    /\ workouts[2].date = strftime(today)
    /\ workouts[2].calories = 250
    /\ weekly_report.days[7] = <<strftime(today), 250>>
    /\ weekly_report.total = 250

----------------------------------------------------------------------------
(* Properties of the nutrition tips *)

RuleOrder == <<"protein", "carbs", "fats", "calories">>

Fires(rule, m) ==
    CASE rule = "protein" -> m.protein < 10
      [] rule = "carbs" -> m.carbs > 100
      [] rule = "fats" -> m.fats > 40
      [] rule = "calories" -> m.calories > 700

\* C7: show_tip reads the last meal only and lists exactly the tips whose
\* rule fires on it, in the order protein < 10, carbs > 100, fats > 40,
\* calories > 700, all four comparisons strict.
C7_TipsOfLastMeal ==
    (op = "show_tip" /\ meals # <<>>) =>
        SelectSeq(tips, LAMBDA t : t # "balanced")
            = SelectSeq(RuleOrder, LAMBDA r : Fires(r, meals[Len(meals)]))

\* the tip for {protein 5, carbs 50, fats 10, calories 300} logged after a
\* meal that fires every rule
C7_Witness ==
    /\ op = "show_tip"
    /\ Len(meals) = 2
    /\ meals[1].protein = 9 /\ meals[1].carbs = 101
    /\ meals[2].protein = 5 /\ meals[2].carbs = 50
    /\ meals[2].fats = 10 /\ meals[2].calories = 300
    /\ tips = <<"protein">>

\* C8: for a non-empty meal list the message is the single balanced message
\* exactly when the last meal fires no rule; the balanced message never comes
\* with another tip and the message is never empty.
C8_BalancedIffNoRule ==
    (op = "show_tip" /\ meals # <<>>) =>
        /\ tips = <<"balanced">>
              <=> \A k \in 1..Len(RuleOrder) : ~Fires(RuleOrder[k], meals[Len(meals)])
        /\ (\E i \in 1..Len(tips) : tips[i] = "balanced") => Len(tips) = 1
        /\ tips # <<>>

\* the tip for a meal that sits on all four thresholds
C8_Witness ==
    /\ op = "show_tip"
    /\ meals # <<>>
    /\ meals[Len(meals)].protein = 10 /\ meals[Len(meals)].carbs = 100
    /\ meals[Len(meals)].fats = 40 /\ meals[Len(meals)].calories = 700
    /\ tips = <<"balanced">>

----------------------------------------------------------------------------
(* Properties of the form validation *)

BadUserForm ==
    \/ userForm.name_entry = <<>>
    \/ userForm.age_entry = <<>>
    \/ userForm.goal_entry = ""
    \/ ~IsIntText(userForm.age_entry)

BadWorkoutForm ==
    \/ workoutForm.exercise_entry = ""
    \/ ~IsIntText(workoutForm.duration_entry)
    \/ ~IsIntText(workoutForm.calories_entry)

BadMealForm ==
    \/ mealForm.meal_type = ""
    \/ ~IsIntText(mealForm.calories_entry)
    \/ ~IsIntText(mealForm.protein_entry)
    \/ ~IsIntText(mealForm.carbs_entry)
    \/ ~IsIntText(mealForm.fats_entry)

BadGoalForm ==
    \/ ~IsIntText(goalForm.goal_entry)
    \/ IntValue(goalForm.goal_entry) <= 0

ErrorDialogs == {"Input Error", "Invalid Age", "Invalid Input", "Invalid", "Missing"}

\* C10: save_user, log_workout and log_meal on a form with a missing field
\* or a non-integer number, and set_goal on a non-integer or non-positive
\* entry, raise one error or warning dialog, write none of the four stores
\* and leave the forms as typed.
C10_RejectedWritesNothing ==
    [][(\/ op' = "save_user" /\ BadUserForm
        \/ op' = "log_workout" /\ BadWorkoutForm
        \/ op' = "log_meal" /\ BadMealForm
        \/ op' = "set_goal" /\ BadGoalForm) =>
         /\ Len(dialogs') = 1
         /\ dialogs'[1] \in ErrorDialogs
         /\ files' = files
         /\ userForm' = userForm
         /\ workoutForm' = workoutForm
         /\ mealForm' = mealForm
         /\ goalForm' = goalForm]_vars

\* a goal of 0 has been refused while every store holds data
C10_Witness ==
    /\ op = "set_goal"
    /\ dialogs = <<"Invalid">>
    /\ goalForm.goal_entry = <<"0">>
    /\ users # <<>>
    /\ workouts # <<>>
    /\ meals # <<>>
    /\ goals = [calorie_goal |-> 900]

----------------------------------------------------------------------------
(* Properties of the workout table *)

\* the four displayed fields of a record, as the table shows them
Displayed(w) == <<w.date, w.type, Str(w.duration), Str(w.calories)>>

\* C11: a remove that matches no stored record reports "not found": neither
\* delete_user nor delete_selected raises "Deleted" when its filter removed
\* no record from the file.
C11_RemoveReportsNotFound ==
    [][(\/ /\ op' = "delete_selected"
           /\ selection # 0
           /\ \A i \in 1..Len(workouts) : ~SameRow(workouts[i], tree[selection])
        \/ /\ op' = "delete_user"
           /\ userForm.name_entry # <<>>
           /\ \A i \in 1..Len(users) : ~SameKey(users[i].name, userForm.name_entry)) =>
         \A k \in 1..Len(dialogs') : dialogs'[k] # "Deleted"]_vars

\* C12: delete_selected removes exactly the stored records equal to the
\* selected row on date, type, duration and calories; a record that differs
\* from the row in a displayed field stays in the file.
C12_DeleteMatchesDisplayedFields ==
    [][(op' = "delete_selected" /\ selection # 0) =>
         workouts' = SelectSeq(workouts, LAMBDA w : Displayed(w) # tree[selection])]_vars

----------------------------------------------------------------------------
(* Properties of the stored values *)

\* C13: every record of the user store has a positive age.
C13_AgesPositive == \A i \in 1..Len(users) : users[i].age > 0

\* the goal file is the empty object or {calorie_goal: g} with g > 0
GoalShape(g) == g = <<>> \/ (DOMAIN g = {"calorie_goal"} /\ g.calorie_goal > 0)

\* set_goal has written its goal (it ran past its validation)
SetGoalAccepted == op' = "set_goal" /\ dialogs'[1] = "Saved"

\* C14 as claimed: the goal file is {} or {calorie_goal: g}, g > 0; an accepted
\* set_goal(g) writes {calorie_goal: g} and leaves the workout file unchanged
\* up to its return.
C14_SetGoalKeepsWorkouts ==
    [][/\ GoalShape(goals')
       /\ SetGoalAccepted =>
             /\ goals' = [calorie_goal |-> IntValue(goalForm.goal_entry)]
             /\ workouts' = workouts
       /\ (op = "set_goal" /\ prompt) => workouts' = workouts]_vars

\* C14 amended: the goal file is {} or {calorie_goal: g}, g > 0; an accepted
\* set_goal(g) writes {calorie_goal: g}; the workout file is unchanged when
\* set_goal returns unless the calories burned reach g and the user accepts
\* the reset that set_goal's update_progress offers, which empties it.
C14_GoalFileShape ==
    [][/\ GoalShape(goals')
       /\ SetGoalAccepted =>
             /\ goals' = [calorie_goal |-> IntValue(goalForm.goal_entry)]
             /\ workouts' = workouts
       /\ (op = "set_goal" /\ prompt) =>
             /\ goals' = goals
             /\ \/ workouts' = workouts
                \/ /\ op' = "reset_progress_and_goal"
                   /\ LifetimeCalories >= goals.calorie_goal
                   /\ workouts' = <<>>]_vars

\* set_goal(200) has returned after an accepted reset
C14_Witness ==
    /\ op = "reset_progress_and_goal"
    /\ dialogs = <<"Saved", "Goal Completed", "Reset">>
    /\ goals = [calorie_goal |-> 200]
    /\ workouts = <<>>

----------------------------------------------------------------------------
(* Properties of the append operations *)

\* C15: an accepted log_workout (log_meal) appends exactly one record, made
\* of the submitted fields and today's date, to the workout (meal) list:
\* the old records keep their content and order, the list grows by one and
\* the other stores are unchanged.
C15_LogAppends ==
    [][/\ (op' = "log_workout" /\ dialogs' = <<"Success">>) =>
             /\ workouts' =
                    Append(workouts,
                           [date |-> strftime(today), type |-> workoutForm.exercise_entry,
                            duration |-> IntValue(workoutForm.duration_entry),
                            calories |-> IntValue(workoutForm.calories_entry),
                            notes |-> workoutForm.notes_text])
             /\ Len(workouts') = Len(workouts) + 1
             /\ users' = users /\ meals' = meals /\ goals' = goals
       /\ (op' = "log_meal" /\ dialogs' = <<"Logged">>) =>
             /\ meals' =
                    Append(meals,
                           [date |-> strftime(today), type |-> mealForm.meal_type,
                            calories |-> IntValue(mealForm.calories_entry),
                            protein |-> IntValue(mealForm.protein_entry),
                            carbs |-> IntValue(mealForm.carbs_entry),
                            fats |-> IntValue(mealForm.fats_entry)])
             /\ Len(meals') = Len(meals) + 1
             /\ users' = users /\ workouts' = workouts /\ goals' = goals]_vars

\* a second, different meal has been logged after a workout
C15_Witness ==
    /\ op = "log_meal"
    /\ dialogs = <<"Logged">>
    /\ Len(meals) = 2
    /\ meals[1].type = "Lunch"
    /\ meals[2].type = "Dinner"
    /\ workouts # <<>>

----------------------------------------------------------------------------
(* The two weekly series *)

\* C17: over the same workout file (every record dated) and the same current
\* day, the summary of GoalScreen.show_report and the series of
\* ReportScreen.show_fitness_chart are the same: the same 7 day keys in the
\* same order with the same calorie sum per day.
C17_ReportEqualsChart ==
    (weekly_report # <<>> /\ chart # <<>>) =>
        /\ Len(weekly_report.days) = 7
        /\ Len(chart) = 7
        /\ \A k \in 1..7 : weekly_report.days[k] = chart[k]

\* both have run over a record on the first day of the window, a record
\* today and nothing else
C17_Witness ==
    /\ weekly_report # <<>>
    /\ chart # <<>>
    /\ Len(workouts) = 2
    /\ workouts[1].date = strftime(today - 6)
    /\ workouts[1].calories = 100
    /\ workouts[2].date = strftime(today)
    /\ workouts[2].calories = 250
    /\ chart[1] = <<strftime(today - 6), 100>>
    /\ weekly_report.days[7] = <<strftime(today), 250>>

----------------------------------------------------------------------------
(* The goal-completed prompt *)

PersistedGoal == Get(goals, "calorie_goal", 0)

\* C18: an update_progress run (opening the Goal screen, an accepted
\* set_goal, Refresh) raises the goal-completed prompt exactly when the
\* persisted goal is > 0 and the lifetime calories are >= it, and nothing
\* else raises it.  Declining changes no file, so an update_progress that
\* follows prompts again; accepting empties the workouts and keeps the goal,
\* so a later prompt needs workouts logged since, totalling at least the goal.
C18_PromptIffGoalReached ==
    [][/\ Updated' => (prompt' <=> (PersistedGoal' > 0 /\ LifetimeCalories' >= PersistedGoal'))
       /\ (prompt' /\ ~prompt) => Updated'
       /\ op' = "keep_progress" =>
              (prompt /\ ~prompt' /\ UNCHANGED <<users, workouts, meals, goals>>)
       /\ (op = "keep_progress" /\ op' \in {"open_goals", "update_progress"}) => prompt'
       /\ op' = "reset_progress_and_goal" =>
              (prompt /\ ~prompt' /\ workouts' = <<>> /\ goals' = goals)
       /\ prompt' => (workouts' # <<>> /\ LifetimeCalories' >= PersistedGoal')]_vars

\* Refresh prompts when two workouts of 100 meet a goal of 200 exactly
C18_Witness ==
    /\ op = "update_progress"
    /\ prompt
    /\ dialogs = <<"Goal Completed">>
    /\ goals = [calorie_goal |-> 200]
    /\ LifetimeCalories = 200

----------------------------------------------------------------------------
(* The WorkoutScreen table against the workout file *)

\* C19: with a WorkoutScreen open, after every completed event of the open
\* screens the rows of its table are, in order, the (date, type, duration,
\* calories) projection of the workout file.
C19_TableShowsFile ==
    ("workouts" \in opened /\ ~prompt) => tree = Rows(workouts)

----------------------------------------------------------------------------
(* The range of the progress bar *)

\* C20: in every state reached through accepted log_workout and set_goal,
\* the value update_progress writes to the progress bar is between 0 and
\* 100 inclusive.
C20_ProgressInRange ==
    Updated => (0 <= progress_var.num /\ progress_var.num <= 100 * progress_var.den)

----------------------------------------------------------------------------
(* Unreadable data files *)

Unreadable(fs) == fs \cap corrupt # {}

\* the handler of this step is a screen constructor and met an unreadable file
OpeningFails ==
    \/ op' = "open_workouts" /\ Unreadable({"workouts"})
    \/ op' = "open_goals" /\ Unreadable({"goals", "workouts"})
    \/ op' = "open_nutrition" /\ Unreadable({"meals"})
    \/ op' = "open_reports" /\ Unreadable({"workouts", "meals"})

\* the handler of this step is show_report or show_tip and met an unreadable file
ShowFails ==
    \/ op' = "show_report" /\ Unreadable({"workouts"})
    \/ op' = "show_tip" /\ Unreadable({"meals"})

\* the handler of this step is another button or table callback, got past
\* its input tests and met an unreadable file
CallbackFails ==
    \/ op' = "update_progress" /\ Unreadable({"goals", "workouts"})
    \/ op' = "set_goal" /\ dialogs' # <<"Invalid">> /\ Unreadable({"workouts"})
    \/ op' \in {"delete_selected", "on_row_double_click"} /\ selection # 0
          /\ Unreadable({"workouts"})

ErrorShown(ds) == \E k \in 1..Len(ds) : ds[k] = "Error"

====
